---- MODULE Spec2Model ----
(***************************************************************************)
(* Stroke capture state machine of the bubbles game (inputHandler.js,      *)
(* the module main.js imports) together with the part of main.js that the  *)
(* input callbacks drive (the game state variable currentState).           *)
(*                                                                         *)
(* Time is Date.now() in milliseconds, counted from the page load.  A      *)
(* handler runs to completion (single threaded event loop), so every       *)
(* handler is one action.                                                  *)
(*                                                                         *)
(* Several specifications share the variables.  Spec is the capture state  *)
(* machine under pointer, key and frame events, with the clock advancing   *)
(* in steps of 1000 ms; what onPopAction and onSymbolRecognized do to the  *)
(* bubbles and counters never reaches the capture state, so Spec leaves    *)
(* the variables of the game in play as they are.  GameSpec is the game    *)
(* in play: the callbacks of main.js (taps, recognised gestures, button    *)
(* clicks, Escape) and the frame loop acting on bubbles, counters and the  *)
(* background effect, with the clock advancing in steps of 1500 ms; the    *)
(* callbacks never read the capture state, so GameSpec leaves it as it is. *)
(* SessionSpec is the life of a play session (menu, settings, game, pause  *)
(* confirmation, end screen) with the game time setting and the clock      *)
(* advancing in minutes; LiveSessionSpec adds that frames keep coming and  *)
(* time keeps passing.  DifficultySpec is updateDifficulty applied pop     *)
(* after pop under each difficulty setting.  CrowdSpec is the frame loop   *)
(* started from a game whose bubble list is at or near its maximum.        *)
(* RecognizerSpec is the template store and the recognizer under adds,     *)
(* removals and recognitions.                                              *)
(* SettingsSpec is the settings screen with its toggle and sliders under   *)
(* presses, drags, releases and resizes; TunedSpec is the game of GameSpec *)
(* with presses on two of the controls.  The other specifications do not   *)
(* operate the controls: Spec takes a settings interaction by its effect   *)
(* on gestureTimingSeconds alone.                                          *)
(*                                                                         *)
(* The variables last, lastSubmission and lastRecognition are observations *)
(* of the run (what the most recent pointer-up called, the most recent     *)
(* recognition submission, what the most recent callback did); the program *)
(* does not read them.  The list visualStrokes only feeds the renderer and *)
(* is not modelled.  The recognizer (PDollarRecognizer) is modelled by     *)
(* its score rule over point-cloud distances.                              *)
(***************************************************************************)
EXTENDS Integers, Sequences, FiniteSets

VARIABLES
    currentState,            \* main.js: let currentState
    gestureTimingSeconds,    \* settings: gameSettings.gestureTimingSeconds
    isDrawing,               \* inputHandler: let isDrawing
    currentStroke,           \* inputHandler: let currentStroke
    previousStroke,          \* inputHandler: let previousStroke (Null or a point list)
    previousStrokeEndTime,   \* inputHandler: let previousStrokeEndTime
    currentStrokeStartTime,  \* inputHandler: let currentStrokeStartTime
    isDraggingSlider,        \* inputHandler: let isDraggingSlider
    now,                     \* Date.now()
    last,                    \* observation: the most recent handler run
    lastSubmission,          \* observation: the most recent recognition submission
    bubbles,                 \* main.js: let bubbles
    popCount,                \* main.js: let popCount
    specialPopCount,         \* main.js: let specialPopCount
    missedCount,             \* main.js: let missedCount
    backgroundEffect,        \* main.js: let backgroundEffect (NoEffect or a record)
    gameStartTime,           \* main.js: let gameStartTime
    lastSpawnTime,           \* main.js: let lastSpawnTime
    difficulty,              \* main.js: currentSpawnRate, currentMaxBubbles, currentMinSpeed, currentMaxSpeed
    lastRecognition,         \* observation: what the most recent callback did
    gameSettings,            \* settings: gameSettings (difficultyMultiplier, specialBubbleFrequency, babyMode, gameTimeMinutes)
    recognizer,              \* main.js: let recognizer (its template store, in insertion order)
    settingsManager          \* main.js: let settingsManager (the controls of the settings screen)

vars == <<currentState, gestureTimingSeconds, isDrawing,
          currentStroke, previousStroke, previousStrokeEndTime,
          currentStrokeStartTime, isDraggingSlider, now, last, lastSubmission,
          bubbles, popCount, specialPopCount, missedCount, backgroundEffect,
          gameStartTime, lastSpawnTime, difficulty, lastRecognition,
          gameSettings, recognizer, settingsManager>>

\* what is set up before a game is played: the settings, the templates and
\* the controls of the settings screen
setupVars == <<gameSettings, recognizer, settingsManager>>

\* the state of a game in play: bubbles, counters, effect, clocks, difficulty
playVars == <<bubbles, popCount, specialPopCount, missedCount, backgroundEffect,
              gameStartTime, lastSpawnTime, difficulty>>

captureVars == <<isDrawing, currentStroke, previousStroke, previousStrokeEndTime,
                 currentStrokeStartTime, isDraggingSlider>>

gameVars == <<currentState, gestureTimingSeconds>>

----------------------------------------------------------------------------
(* Bounds of the model *)

\* the clock stops advancing after MaxTicks steps of 1000 ms
MaxTicks == 2

\* a stroke buffer holds at most MaxStrokeLen points
MaxStrokeLen == 3

\* canvas coordinates the pointer events carry: (0,0)-(3,4) is at distance
\* exactly 5, (0,0)-(8,0) and (3,4)-(8,0) are farther than 5
Coords == {<<0, 0>>, <<3, 4>>, <<8, 0>>}

\* the devices that deliver the pointer-up event (mouseup, touchend); for
\* down and move both devices carry the coordinates of the pointer
Sources == {"mouse", "touch"}

\* values a settings interaction can leave in gestureTimingSeconds
TimingChoices == {1, 2}

\* what can lie under the pointer at a pointer-down on each screen: nothing,
\* one of the screen's buttons, or (settings screen) the Back button or a
\* toggle/slider control
Targets(state) ==
    CASE state = "menu"          -> {"none", "New Game", "About", "Settings", "Quit"}
      [] state = "about"         -> {"none", "Back to Menu"}
      [] state = "settings"      -> {"none", "back", "control"}
      [] state = "pause_confirm" -> {"none", "End Game", "Keep Playing"}
      [] state = "end_game"      -> {"none", "Back to Menu"}
      [] OTHER                   -> {"none"}

\* in a session the clock stops advancing after MaxSessionTicks steps of one
\* minute
MaxSessionTicks == 2

\* calculateDifficultyValues is applied to totalPops from 0 to MaxPops (the
\* slowest progression reaches its plateaus at 100 pops)
MaxPops == 101

\* a crowded game is watched from CrowdStart (30 s after it was started at
\* the page load) for MaxCrowdTicks steps of 1500 ms
CrowdStart == 30000

MaxCrowdTicks == 1

\* the template store holds at most MaxTemplates templates
MaxTemplates == 3

\* the normalized point sets a template can hold, by number
PointSets == {1, 2, 3}

\* the names remove can be asked to remove ("star" is never stored)
RemoveNames == {"circle", "triangle", "X", "star"}

\* in a game the clock stops advancing after MaxGameTicks steps of 1500 ms
\* (a step is longer than the first spawn interval, the pop animation and
\* not shorter than the background effect)
MaxGameTicks == 1

\* the canvas of the game, in grid steps: bubbles are born below the bottom
\* edge at y = CanvasHeight + radius and rise by speedY per frame.  A bubble
\* of radius 5 at (5,5) holds the tap point (3,4); at (5,0) it holds (3,4)
\* and (8,0) and has (0,0) on its rim.
CanvasHeight == 5

\* what Math.random() can give a new bubble: its x, its radius, the grid
\* steps it rises per frame, and its type ("none" for a normal bubble)
SpawnXs == {5}

Radii == {5}

Speeds == {5}

SpawnTypes == {"none", "circle", "X"}

\* the mean point distances the point-cloud match can find between a
\* candidate and a template, in fifths of the reference half diagonal
Distances == {0, 3, 4, 7}

----------------------------------------------------------------------------
(* Program constants and pure helpers *)

MIN_DRAG_DISTANCE == 5

GameState == [MENU |-> "menu", ABOUT |-> "about", SETTINGS |-> "settings",
              GAME |-> "game", PAUSE_CONFIRM |-> "pause_confirm",
              END_GAME |-> "end_game"]

\* previousStroke = null; a stored stroke always has more than one point
Null == << >>

Point(x, y, id) == [X |-> x, Y |-> y, ID |-> id]

\* gameSettings.multiStrokeGracePeriodMs, read through getMultiStrokeGracePeriodMs()
getMultiStrokeGracePeriodMs == gestureTimingSeconds * 1000

\* (x2 - x1)^2 + (y2 - y1)^2, the argument of Math.sqrt in the handlers
DistSq(x1, y1, x2, y2) == (x2 - x1) * (x2 - x1) + (y2 - y1) * (y2 - y1)

\* Math.sqrt(d2) > MIN_DRAG_DISTANCE; exact on integer coordinates
ExceedsMinDragMutGe(d2) == d2 >= MIN_DRAG_DISTANCE * MIN_DRAG_DISTANCE

ExceedsMinDrag(d2) == d2 > MIN_DRAG_DISTANCE * MIN_DRAG_DISTANCE

\* getCanvasCoordinates reads event.touches[0]; at touchend of the single
\* active pointer event.touches is empty and the read throws a TypeError
CoordsThrow(src, handler) == src = "touch" /\ handler = "up"

\* handlePointerUp: currentStroke.length > 1 && distance > MIN_DRAG_DISTANCE
IsStrokeCompletion(stroke) ==
    /\ Len(stroke) > 1
    /\ ExceedsMinDrag(DistSq(stroke[1].X, stroke[1].Y,
                             stroke[Len(stroke)].X, stroke[Len(stroke)].Y))

\* handlePointerUp: previousStroke && (currentStrokeStartTime - previousStrokeEndTime) <= grace
HasValidPreviousStrokeMutUpTime(prev, startTime, endTime, grace) ==
    prev # Null /\ (now - endTime) <= grace

HasValidPreviousStrokeMutNoGrace(prev, startTime, endTime, grace) == prev # Null

HasValidPreviousStrokeMutStrict(prev, startTime, endTime, grace) ==
    prev # Null /\ (startTime - endTime) < grace

HasValidPreviousStroke(prev, startTime, endTime, grace) ==
    prev # Null /\ (startTime - endTime) <= grace

\* the callbacks a handler invokes, as call records
RecognizeCall(points) == [fn |-> "onSymbolRecognized", points |-> points]

PopCall(x, y) == [fn |-> "onPopAction", points |-> <<Point(x, y, 0)>>]

\* handlePointerUp, multi-stroke branch: onSymbolRecognized([...previousStroke, ...currentStroke])
CombinedCallsMutTwice(prev, cur) == <<RecognizeCall(cur), RecognizeCall(prev \o cur)>>

CombinedCallsMutOrder(prev, cur) == <<RecognizeCall(cur \o prev)>>

CombinedCalls(prev, cur) == <<RecognizeCall(prev \o cur)>>

\* handlePointerUp, multi-stroke branch: previousStroke = null
PendingAfterCombinedMutKeep(prev, cur) == prev

PendingAfterCombined(prev, cur) == Null

\* handlePointerUp, single-stroke branch: onSymbolRecognized(currentStroke)
SingleCalls(cur) == <<RecognizeCall(cur)>>

\* handlePointerUp, single-stroke branch: previousStrokeEndTime = Date.now()
PendingEndTimeAfterSingleMutStart(startTime, upTime) == startTime

PendingEndTimeAfterSingle(startTime, upTime) == upTime

\* handlePointerDown, priority 3: currentStroke = [new Point(x, y, 1)]
NewStrokeBufferMutKeep(buffer, x, y) ==
    IF buffer = << >> THEN <<Point(x, y, 1)>> ELSE buffer

NewStrokeBuffer(buffer, x, y) == <<Point(x, y, 1)>>

\* handlePointerMove: if (distance > MIN_DRAG_DISTANCE) push the point
BufferAfterMoveMutFirst(buffer, x, y) ==
    IF ExceedsMinDrag(DistSq(buffer[1].X, buffer[1].Y, x, y))
    THEN Append(buffer, Point(x, y, 1))
    ELSE buffer

BufferAfterMove(buffer, x, y) ==
    LET lastPoint == buffer[Len(buffer)]
    IN  IF ExceedsMinDrag(DistSq(lastPoint.X, lastPoint.Y, x, y))
        THEN Append(buffer, Point(x, y, 1))
        ELSE buffer

\* cleanupExpiredStrokes filters the list visualStrokes by age and assigns
\* nothing else: what it leaves in the pending previous stroke
cleanupExpiredStrokesMutPending(prev, endTime, fadeTimeMs) ==
    IF prev # Null /\ now - endTime > fadeTimeMs THEN Null ELSE prev

cleanupExpiredStrokes(prev, endTime, fadeTimeMs) == prev

\* handlePointerUp, tap branch: onPopAction(x, y)
TapCalls(x, y) == <<PopCall(x, y)>>

\* the observation of one handler run: the handler ("up" for a pointer-up
\* that reaches the tap/stroke classification, "other" for every other run),
\* the branch it took, the callbacks it invoked in order and whether it ended
\* in an exception
Observed(handler, branch, calls, threw, after, pending, edge, n) ==
    [handler |-> handler, branch |-> branch, calls |-> calls, threw |-> threw,
     after |-> after, pending |-> pending, edge |-> edge, n |-> n]

\* a pointer-up that completes a stroke also records what it found: the
\* kind of the recognition submission that preceded it, whether a previous
\* stroke was pending, whether the stroke began exactly one grace period
\* after the pending stroke ended, and the length of the stroke buffer
Ran(branch, calls, threw) ==
    Observed("up", branch, calls, threw, lastSubmission.kind,
             previousStroke # << >>,
             /\ previousStroke # << >>
             /\ currentStrokeStartTime - previousStrokeEndTime
                    = getMultiStrokeGracePeriodMs,
             Len(currentStroke))

\* a pointer-up that is a tap records the length of the stroke buffer
RanTap(calls, threw) ==
    Observed("up", "tap", calls, threw, "none", FALSE, FALSE, Len(currentStroke))

Quiet == Observed("other", "none", << >>, FALSE, "none", FALSE, FALSE, 0)

\* the most recent recognition submission: its kind, and its points when it
\* was a single stroke
NoSubmission == [kind |-> "none", points |-> << >>]

SingleSubmission(points) == [kind |-> "single", points |-> points]

CombinedSubmission == [kind |-> "combined", points |-> << >>]

\* a candidate handed to the recognizer, given by its distances to the point sets
CandidateSubmission(candidate) == [kind |-> "candidate", points |-> candidate]

----------------------------------------------------------------------------
(* main.js callbacks: their effect on currentState *)

\* onQuitAction (main.js 335-346)
onQuitActionMutEnd(state) ==
    IF state = GameState.GAME THEN GameState.PAUSE_CONFIRM
    ELSE IF state = GameState.PAUSE_CONFIRM THEN GameState.GAME
    ELSE GameState.MENU

onQuitAction(state) ==
    IF state = GameState.GAME THEN GameState.PAUSE_CONFIRM
    ELSE IF state = GameState.SETTINGS THEN GameState.MENU
    ELSE IF state = GameState.ABOUT THEN GameState.MENU
    ELSE IF state = GameState.PAUSE_CONFIRM THEN GameState.GAME
    ELSE state

\* onButtonClickAction returns true exactly when a button of the current
\* screen is under the pointer
ButtonClicked(state, target) ==
    \/ state = GameState.MENU /\ target \in {"New Game", "About", "Settings", "Quit"}
    \/ state = GameState.ABOUT /\ target = "Back to Menu"
    \/ state = GameState.PAUSE_CONFIRM /\ target \in {"End Game", "Keep Playing"}
    \/ state = GameState.END_GAME /\ target = "Back to Menu"

\* the state onButtonClickAction leaves in currentState
onButtonClickAction(state, target) ==
    IF ~ButtonClicked(state, target) THEN state
    ELSE IF state = GameState.MENU THEN
        CASE target = "New Game" -> GameState.GAME
          [] target = "About"    -> GameState.ABOUT
          [] target = "Settings" -> GameState.SETTINGS
          [] OTHER               -> onQuitAction(state)
    ELSE IF state = GameState.ABOUT THEN GameState.MENU
    ELSE IF state = GameState.PAUSE_CONFIRM THEN
        (IF target = "End Game" THEN GameState.END_GAME ELSE GameState.GAME)
    ELSE GameState.MENU

\* onPopAction: in GAME a tap on the close button pauses the game
onPopAction(state, closeHit) ==
    IF state = GameState.GAME /\ closeHit THEN GameState.PAUSE_CONFIRM ELSE state

----------------------------------------------------------------------------
(* settings.js: the settings a game is played with and the difficulty curve *)

\* gameSettings with its default values (difficultyMultiplier 1.0 in tenths,
\* specialBubbleFrequency 0.3 in percent); the games of GameSpec are played
\* with them
DefaultSettings ==
    [difficultyMultiplier |-> 10, specialBubbleFrequency |-> 30,
     babyMode |-> FALSE, gameTimeMinutes |-> 2]

\* gameSettings.babyMode
babyMode == gameSettings.babyMode

\* gameSettings.difficultyMultiplier, in tenths
difficultyMultiplier == gameSettings.difficultyMultiplier

\* gameSettings.gameTimeMinutes
gameTimeMinutes == gameSettings.gameTimeMinutes

\* calculateDifficultyValues(totalPops), exact in scaled units: spawnRate in
\* tenths of a millisecond, minSpeed and maxSpeed in 1/10000 pixel per frame,
\* maxBubbles in hundredths of a bubble
Min(a, b) == IF a < b THEN a ELSE b

Max(a, b) == IF a > b THEN a ELSE b

calculateDifficultyValuesMutNoFloor(totalPops) ==
    IF babyMode
    THEN [spawnRate |-> 15000, minSpeed |-> 1500, maxSpeed |-> 4000,
          maxBubbles |-> 1500]
    ELSE LET spawnRateReduction == totalPops * 14 * difficultyMultiplier
             speedIncrease == Min(4000, totalPops * 8 * difficultyMultiplier)
             bubbleIncrease == Min(1000, totalPops * 2 * difficultyMultiplier)
         IN  [spawnRate  |-> 10000 - spawnRateReduction,
              minSpeed   |-> Min(4000, 2000 + speedIncrease),
              maxSpeed   |-> Min(11000, 7000 + speedIncrease),
              maxBubbles |-> Min(3000, 2000 + bubbleIncrease)]

calculateDifficultyValues(totalPops) ==
    IF babyMode
    THEN [spawnRate |-> 15000, minSpeed |-> 1500, maxSpeed |-> 4000,
          maxBubbles |-> 1500]
    ELSE LET spawnRateReduction == Min(7000, totalPops * 14 * difficultyMultiplier)
             speedIncrease == Min(4000, totalPops * 8 * difficultyMultiplier)
             bubbleIncrease == Min(1000, totalPops * 2 * difficultyMultiplier)
         IN  [spawnRate  |-> Max(3000, 10000 - spawnRateReduction),
              minSpeed   |-> Min(4000, 2000 + speedIncrease),
              maxSpeed   |-> Min(11000, 7000 + speedIncrease),
              maxBubbles |-> Min(3000, 2000 + bubbleIncrease)]

----------------------------------------------------------------------------
(* settings.js: the controls of the settings screen.  settingsManager is    *)
(* the list this.controls, a toggle being its value and a slider the pair   *)
(* of its value and isDragging.  Horizontal positions are in pixels from    *)
(* startX, the left end of every control; the vertical position of the      *)
(* pointer is the row it is on: the centre line of one of the controls, or  *)
(* none.  The rows lie 60 and 80 pixels apart, so that a pointer on the row *)
(* of one control is neither on the track nor within reach of the knob of   *)
(* another.                                                                 *)

\* the place of each control in this.controls
babyModeToggle == 1

difficultySlider == 2

specialBubbleSlider == 3

gestureTimingSlider == 4

timeSlider == 5

SliderNames == {difficultySlider, specialBubbleSlider, gestureTimingSlider, timeSlider}

\* sliderWidth, Math.min(400, canvas.width * 0.6), on a canvas 500 pixels wide
sliderWidth == 300

\* timePresets, the value of each preset; the preset of index i in the
\* program is at place i + 1
timePresets == <<1, 2, 3, 4, 5, 10, 15, 30, 60, -1>>

\* min and max each slider is constructed with, in the unit of its value:
\* tenths (difficulty), percent (special bubble frequency), seconds (gesture
\* timing), hundredths of a preset index (game duration, 0 to
\* presets.length - 1)
SliderMin(name) ==
    CASE name = difficultySlider    -> 5
      [] name = specialBubbleSlider -> 0
      [] name = gestureTimingSlider -> 1
      [] name = timeSlider          -> 0

SliderMax(name) ==
    CASE name = difficultySlider    -> 20
      [] name = specialBubbleSlider -> 100
      [] name = gestureTimingSlider -> 5
      [] name = timeSlider          -> 100 * (Len(timePresets) - 1)

\* new Slider(..., value, ...): this.value and this.isDragging
Slider(value) == <<value, FALSE>>

\* slider.value
value(slider) == slider[1]

\* slider.isDragging
isDragging(slider) == slider[2]

\* Math.round of a value given in hundredths
Round(hundredths) == (hundredths + 50) \div 100

\* timePresets.findIndex(p => p.value === minutes)
findIndex(minutes) ==
    IF \E i \in 1..Len(timePresets) : timePresets[i] = minutes
    THEN (CHOOSE i \in 1..Len(timePresets) :
              /\ timePresets[i] = minutes
              /\ \A j \in 1..(i - 1) : timePresets[j] # minutes) - 1
    ELSE -1

\* DiscreteSlider.selectedPreset, its value
selectedPreset(slider) == timePresets[Round(value(slider)) + 1]

\* new SettingsManager(canvas): setupControls with the settings of the moment
SettingsManager(settings, timing) ==
    <<settings.babyMode,
      Slider(settings.difficultyMultiplier),
      Slider(settings.specialBubbleFrequency),
      Slider(timing),
      Slider(100 * (IF findIndex(settings.gameTimeMinutes) >= 0
                    THEN findIndex(settings.gameTimeMinutes)
                    ELSE 1))>>

\* Math.max(0, Math.min(1, (x - this.x) / this.width)), times sliderWidth
ratio(x) == Max(0, Min(sliderWidth, x))

\* this.min + ratio * (this.max - this.min), at a position where it is a
\* whole number of the slider's unit
ValueAt(name, x) ==
    SliderMin(name) + (ratio(x) * (SliderMax(name) - SliderMin(name))) \div sliderWidth

\* Slider.handleInput: dist <= this.knobRadius * 1.5 for a pointer on the
\* centre line of the slider, knobX being
\* this.x + ((this.value - this.min) / (this.max - this.min)) * this.width
\* and knobRadius height / 2 of a slider 20 pixels high
OnKnob(name, slider, x) ==
    LET range == SliderMax(name) - SliderMin(name)
        d == x * range - (value(slider) - SliderMin(name)) * sliderWidth
    IN  d <= 15 * range /\ 0 - d <= 15 * range

\* Slider.handleInput(x, y, true), which DiscreteSlider inherits: the slider
\* after the call, the knob grabbed or the track clicked
SliderHandleInput(name, slider, x, row) ==
    IF row = name /\ OnKnob(name, slider, x)
    THEN <<value(slider), TRUE>>
    ELSE IF row = name /\ 0 <= x /\ x <= sliderWidth
         THEN <<ValueAt(name, x), TRUE>>
         ELSE slider

\* Slider.handleDrag with the ratio left unclamped
handleDragMutNoClamp(name, slider, x) ==
    IF isDragging(slider)
    THEN <<IF name = timeSlider
           THEN 100 * Round(ValueAt(name, x))
           ELSE SliderMin(name) + (x * (SliderMax(name) - SliderMin(name))) \div sliderWidth,
           TRUE>>
    ELSE slider

\* Slider.handleDrag(x, y) and DiscreteSlider.handleDrag(x, y), which snaps:
\* the slider after the call
handleDrag(name, slider, x) ==
    IF isDragging(slider)
    THEN <<IF name = timeSlider
           THEN 100 * Round(ValueAt(name, x))
           ELSE ValueAt(name, x),
           TRUE>>
    ELSE slider

\* ToggleButton.handleInput(x, y) returns true, the toggle being 60 pixels wide
ToggleHandles(x, row) == row = babyModeToggle /\ 0 <= x /\ x <= 60

\* SettingsManager.handleInput, the loop over one slider: handleDrag,
\* handleInput or stopDragging
ControlAfterInput(manager, name, x, row, isDown, isDrag) ==
    IF isDrag
    THEN handleDrag(name, manager[name], x)
    ELSE IF isDown
         THEN SliderHandleInput(name, manager[name], x, row)
         ELSE <<value(manager[name]), FALSE>>

\* SettingsManager.handleInput(x, y, isDown, isDrag) away from the Back
\* button: the controls after the call
handleInput(manager, x, row, isDown, isDrag) ==
    <<IF isDown /\ ~isDrag /\ ToggleHandles(x, row)
      THEN ~manager[babyModeToggle]
      ELSE manager[babyModeToggle],
      ControlAfterInput(manager, difficultySlider, x, row, isDown, isDrag),
      ControlAfterInput(manager, specialBubbleSlider, x, row, isDown, isDrag),
      ControlAfterInput(manager, gestureTimingSlider, x, row, isDown, isDrag),
      ControlAfterInput(manager, timeSlider, x, row, isDown, isDrag)>>

\* SettingsManager.handleInput(x, y, isDown, isDrag) returns true: a control
\* handled the input, and updateSettings was called
Handled(manager, x, row, isDown, isDrag) ==
    \/ isDown /\ ~isDrag /\ ToggleHandles(x, row)
    \/ \E name \in SliderNames :
          IF isDrag
          THEN isDragging(manager[name])
          ELSE /\ isDown
               /\ row = name
               /\ OnKnob(name, manager[name], x) \/ (0 <= x /\ x <= sliderWidth)

\* SettingsManager.updateSettings: gameSettings after the call, but for
\* gestureTimingSeconds, which is a variable of its own
updateSettings(manager) ==
    [babyMode               |-> manager[babyModeToggle],
     difficultyMultiplier   |-> value(manager[difficultySlider]),
     specialBubbleFrequency |-> value(manager[specialBubbleSlider]),
     gameTimeMinutes        |-> selectedPreset(manager[timeSlider])]

----------------------------------------------------------------------------
(* bubble.js: bubbles *)

\* SpecialBubbleTypes, by name; a normal bubble has specialType null ("none")
SpecialBubbleTypes == {"circle", "triangle", "X"}

\* new Bubble(x, y, radius, color, specialType) with the speed spawnBubble gives it
Bubble(x, y, radius, specialType, speedY) ==
    [x |-> x, y |-> y, radius |-> radius, specialType |-> specialType,
     popped |-> FALSE, popTime |-> 0, speedY |-> speedY]

\* Bubble.isClicked: Math.sqrt(dx^2 + dy^2) < radius
isClicked(bubble, x, y) ==
    DistSq(x, y, bubble.x, bubble.y) < bubble.radius * bubble.radius

\* Bubble.pop
pop(bubble) == [bubble EXCEPT !.popped = TRUE, !.popTime = now]

\* Bubble.isAlive: the pop animation lasts 500 ms; an unpopped bubble lives
\* while it is on screen
isAlive(bubble) ==
    IF bubble.popped THEN now - bubble.popTime < 500
    ELSE bubble.y + bubble.radius > 0

\* Bubble.update: an unpopped bubble rises
update(bubble) ==
    IF ~bubble.popped THEN [bubble EXCEPT !.y = @ - bubble.speedY] ELSE bubble

----------------------------------------------------------------------------
(* The recognizer main.js calls: recognizer.Recognize(points) *)

\* initializeTemplates: the names of the stored templates, in the order of
\* the AddGesture calls
Templates == <<"circle", "triangle", "X">>

\* half the diagonal of the reference box, in the unit of Distances
HalfDiagonal == 5

\* score = 1 - d / halfDiagonal clamped to [0,1], as the numerator of a
\* fraction over HalfDiagonal
ScoreOfMutNoClamp(d) == HalfDiagonal - d

ScoreOf(d) ==
    IF HalfDiagonal - d < 0 THEN 0
    ELSE IF HalfDiagonal - d > HalfDiagonal THEN HalfDiagonal
    ELSE HalfDiagonal - d

\* the smallest of the distances found to the templates
MinDistance(dists) ==
    CHOOSE d \in {dists[i] : i \in DOMAIN dists} :
        \A i \in DOMAIN dists : d <= dists[i]

\* the first template, in store order, at the smallest distance
WinnerMutLast(dists) ==
    CHOOSE i \in DOMAIN dists :
        /\ dists[i] = MinDistance(dists)
        /\ \A j \in DOMAIN dists : dists[j] = MinDistance(dists) => i >= j

Winner(dists) ==
    CHOOSE i \in DOMAIN dists :
        /\ dists[i] = MinDistance(dists)
        /\ \A j \in DOMAIN dists : dists[j] = MinDistance(dists) => i <= j

\* the result of Recognize for a candidate at distance dists[i] from template i
Recognize(dists) ==
    [Name |-> Templates[Winner(dists)], Score |-> ScoreOf(MinDistance(dists))]

\* the results Recognize can return for the candidates a player can draw
RecognitionResults ==
    {Recognize(dists) : dists \in [DOMAIN Templates -> Distances]}

----------------------------------------------------------------------------
(* The template store of the recognizer.  A template is a name with a      *)
(* normalized point set; a point set is named by its number, and a         *)
(* candidate is given by its distance to every point set.                  *)

\* a stored template
Template(name, points) == [Name |-> name, Points |-> points]

\* initializeTemplates: the store after the three AddGesture calls
initializeTemplates ==
    <<Template("circle", 1), Template("triangle", 2), Template("X", 3)>>

\* add(name, rawPoints): the template is appended; a name may repeat
AddGesture(store, name, points) == Append(store, Template(name, points))

\* remove(name): every template with that name goes, the others stay
RemoveGestureMutFirst(store, name) ==
    IF \E i \in 1..Len(store) : store[i].Name = name
    THEN LET first == CHOOSE i \in 1..Len(store) :
                         /\ store[i].Name = name
                         /\ \A j \in 1..(i - 1) : store[j].Name # name
         IN  [k \in 1..(Len(store) - 1) |->
                 IF k < first THEN store[k] ELSE store[k + 1]]
    ELSE store

RemoveGesture(store, name) ==
    LET Keep(t) == t.Name # name
    IN  SelectSeq(store, Keep)

\* all(): the templates in insertion order
all(store) == store

\* the distances of a candidate to the templates of the store, in store order
DistancesTo(store, candidate) ==
    [i \in 1..Len(store) |-> candidate[store[i].Points]]

\* the result of recognize on an empty store: score 0 and a sentinel name
NoMatch == [Name |-> "No match", Score |-> 0]

\* recognize(candidate) against the templates of the store
RecognizeIn(store, candidate) ==
    IF Len(all(store)) = 0 THEN NoMatch
    ELSE LET dists == DistancesTo(all(store), candidate)
         IN  [Name  |-> all(store)[Winner(dists)].Name,
              Score |-> ScoreOf(MinDistance(dists))]

----------------------------------------------------------------------------
(* main.js: the callbacks' effect on bubbles and counters *)

\* let recognitionThreshold = 0.4, in tenths
recognitionThreshold == 4

\* onSymbolRecognized: result.Score >= recognitionThreshold
MeetsThresholdMutAlways(score) == score >= 0

MeetsThreshold(score) == score * 10 >= recognitionThreshold * HalfDiagonal

\* onSymbolRecognized: if (currentState !== GameState.GAME) return
RecognitionRunsMutPaused(state) ==
    state \in {GameState.GAME, GameState.PAUSE_CONFIRM}

RecognitionRuns(state) == state = GameState.GAME

\* backgroundEffect = null
NoEffect == [symbol |-> "none", startTime |-> 0]

\* triggerBackgroundEffect(symbolName)
triggerBackgroundEffect(symbolName) == [symbol |-> symbolName, startTime |-> now]

\* drawBackgroundEffect: the effect is dropped once elapsed / duration >= 1
drawBackgroundEffect(effect) ==
    IF effect # NoEffect /\ now - effect.startTime >= 1500 THEN NoEffect ELSE effect

\* clearMatchingBubbles: the bubbles the loop pops
MatchesMutAnySpecial(bubble, symbolName) ==
    bubble.specialType # "none" /\ ~bubble.popped

Matches(bubble, symbolName) ==
    /\ bubble.specialType # "none"
    /\ bubble.specialType = symbolName
    /\ ~bubble.popped

\* clearMatchingBubbles: the list after the loop and the count it returns
clearMatchingBubbles(list, symbolName) ==
    [i \in 1..Len(list) |->
        IF Matches(list[i], symbolName) THEN pop(list[i]) ELSE list[i]]

clearedCount(list, symbolName) ==
    Cardinality({i \in 1..Len(list) : Matches(list[i], symbolName)})

\* onPopAction: the bubbles the loop pops
PopsMutSpecial(bubble, x, y) == isClicked(bubble, x, y) /\ ~bubble.popped

Pops(bubble, x, y) ==
    /\ isClicked(bubble, x, y)
    /\ ~bubble.popped
    /\ bubble.specialType = "none"

\* onPopAction: the list after the loop and the number of bubbles popped
popBubbles(list, x, y) ==
    [i \in 1..Len(list) |->
        IF Pops(list[i], x, y) THEN pop(list[i]) ELSE list[i]]

poppedCount(list, x, y) ==
    Cardinality({i \in 1..Len(list) : Pops(list[i], x, y)})

\* checkEndGameCondition: the state it leaves
checkEndGameConditionMutEarly(state) ==
    IF gameTimeMinutes = -1 THEN state
    ELSE IF now - gameStartTime >= 0 THEN GameState.END_GAME ELSE state

checkEndGameConditionMutUnlimited(state) ==
    IF now - gameStartTime >= gameTimeMinutes * 60 * 1000
    THEN GameState.END_GAME
    ELSE state

checkEndGameConditionMutNever(state) == state

checkEndGameCondition(state) ==
    IF gameTimeMinutes = -1 THEN state
    ELSE IF now - gameStartTime >= gameTimeMinutes * 60 * 1000
         THEN GameState.END_GAME
         ELSE state

\* checkSpawnCondition: the test that lets a bubble spawn
SpawnDue(list) ==
    /\ (now - lastSpawnTime) * 10 > difficulty.spawnRate
    /\ Len(list) * 100 < difficulty.maxBubbles

\* drawGame, bubble loop: the bubbles that stay, moved by update()

AliveBubbles(list) ==
    LET alive == SelectSeq(list, isAlive)
    IN  [i \in 1..Len(alive) |-> update(alive[i])]

\* drawGame, bubble loop: the bubbles counted as missed
MissedBubblesMutPopped(list) ==
    Cardinality({i \in 1..Len(list) : ~isAlive(list[i])})

MissedBubbles(list) ==
    Cardinality({i \in 1..Len(list) : ~isAlive(list[i]) /\ ~list[i].popped})

\* the observation of one callback run: which callback ran, whether the
\* recognizer was run, the result it returned, whether the result was accepted, and how many bubbles the callback popped
Recognition(kind, ran, result, accepted, cleared) ==
    [kind |-> kind, ran |-> ran, result |-> result, accepted |-> accepted,
     cleared |-> cleared]

NoResult == [Name |-> "none", Score |-> 0]

NoRecognition == Recognition("none", FALSE, NoResult, FALSE, 0)

\* Date.now() when the page is loaded: the clock of the model starts there,
\* so that a time stamp that is 0 in the program lies PageLoadTime before it
PageLoadTime == 1000000

----------------------------------------------------------------------------
\* inputHandler.js after initializeInput, the templates after
\* initializeTemplates and the observations.  (main.js creates settingsManager
\* at the first visit of the settings screen, from gameSettings, which only
\* its controls change: the controls are what they would be if created at
\* the page load, and the model holds them from the start.)
InitCapture ==
    /\ gestureTimingSeconds = 2
    /\ isDrawing = FALSE
    /\ currentStroke = << >>
    /\ previousStroke = Null
    /\ previousStrokeEndTime = 0
    /\ currentStrokeStartTime = 0
    /\ isDraggingSlider = FALSE
    /\ lastSubmission = NoSubmission
    /\ last = Quiet
    /\ lastRecognition = NoRecognition
    /\ recognizer = initializeTemplates

\* main.js: the variables of the game in play as they are declared
InitPlay ==
    /\ bubbles = << >>
    /\ popCount = 0
    /\ specialPopCount = 0
    /\ missedCount = 0
    /\ backgroundEffect = NoEffect
    /\ gameStartTime = 0 - PageLoadTime
    /\ lastSpawnTime = 0 - PageLoadTime

Init ==
    /\ currentState = GameState.MENU
    /\ now = 0
    /\ InitCapture
    /\ InitPlay
    /\ gameSettings = DefaultSettings
    /\ settingsManager = SettingsManager(gameSettings, gestureTimingSeconds)
    /\ difficulty = calculateDifficultyValues(0)

----------------------------------------------------------------------------
(* inputHandler.js handlers *)

\* onSettingsInput(x, y, true, false) at a pointer-down: the value it returns
\* ('back' and true are both truthy).  The Settings button creates
\* settingsManager before it sets the state to SETTINGS and nothing resets it
\* to null, so "currentState === SETTINGS && settingsManager" is the test of
\* the state alone.
SettingsHandlesDown(target) ==
    /\ currentState = GameState.SETTINGS
    /\ target \in {"back", "control"}

\* handlePointerDown, priority 1: the settings screen took the event
DownOnSettings(target) ==
    /\ SettingsHandlesDown(target)
    /\ IF target = "back"
       THEN currentState' = GameState.MENU /\ UNCHANGED gestureTimingSeconds
       ELSE /\ gestureTimingSeconds' \in TimingChoices
            /\ UNCHANGED currentState
    /\ isDraggingSlider' = TRUE
    /\ last' = Quiet
    /\ UNCHANGED <<isDrawing, currentStroke, previousStroke,
                   previousStrokeEndTime, currentStrokeStartTime, now, lastSubmission>>
    /\ UNCHANGED <<playVars, lastRecognition, setupVars>>

\* handlePointerDown, priority 2: a button took the event
DownOnButton(target) ==
    /\ ~SettingsHandlesDown(target)
    /\ ButtonClicked(currentState, target)
    /\ currentState' = onButtonClickAction(currentState, target)
    /\ last' = Quiet
    /\ UNCHANGED <<gestureTimingSeconds, captureVars, now, lastSubmission>>
    /\ UNCHANGED <<playVars, lastRecognition, setupVars>>

\* handlePointerDown, priority 3: a drawing or tap gesture starts
DownStartsStroke(x, y, target) ==
    /\ ~SettingsHandlesDown(target)
    /\ ~ButtonClicked(currentState, target)
    /\ currentStrokeStartTime' = now
    /\ currentStroke' = NewStrokeBuffer(currentStroke, x, y)
    /\ isDrawing' = TRUE
    /\ last' = Quiet
    /\ UNCHANGED <<gameVars, previousStroke, previousStrokeEndTime,
                   isDraggingSlider, now, lastSubmission>>
    /\ UNCHANGED <<playVars, lastRecognition, setupVars>>

handlePointerDown(x, y, target) ==
    \/ DownOnSettings(target)
    \/ DownOnButton(target)
    \/ DownStartsStroke(x, y, target)

\* handlePointerMove while a slider is dragged: onSettingsInput(x, y, false, true)
MoveDragsSlider ==
    /\ isDraggingSlider
    /\ IF currentState = GameState.SETTINGS
       THEN gestureTimingSeconds' \in TimingChoices
       ELSE UNCHANGED gestureTimingSeconds
    /\ last' = Quiet
    /\ UNCHANGED <<currentState, captureVars, now, lastSubmission>>
    /\ UNCHANGED <<playVars, lastRecognition, setupVars>>

\* handlePointerMove while not drawing: early return
MoveIgnored ==
    /\ ~isDraggingSlider
    /\ ~isDrawing
    /\ last' = Quiet
    /\ UNCHANGED <<gameVars, captureVars, now, lastSubmission>>
    /\ UNCHANGED <<playVars, lastRecognition, setupVars>>

\* handlePointerMove while drawing: push the point when it is far enough
\* from the last buffered point
MoveDraws(x, y) ==
    /\ ~isDraggingSlider
    /\ isDrawing
    /\ Len(BufferAfterMove(currentStroke, x, y)) <= MaxStrokeLen
    /\ currentStroke' = BufferAfterMove(currentStroke, x, y)
    /\ last' = Quiet
    /\ UNCHANGED <<gameVars, isDrawing, previousStroke, previousStrokeEndTime,
                   currentStrokeStartTime, isDraggingSlider, now, lastSubmission>>
    /\ UNCHANGED <<playVars, lastRecognition, setupVars>>

handlePointerMove(x, y) ==
    \/ MoveDragsSlider
    \/ MoveIgnored
    \/ MoveDraws(x, y)

\* handlePointerUp while a slider is dragged
UpReleasesSlider(src) ==
    /\ isDraggingSlider
    /\ IF CoordsThrow(src, "up")
       THEN UNCHANGED isDraggingSlider
       ELSE isDraggingSlider' = FALSE
    /\ last' = Quiet
    /\ UNCHANGED <<gameVars, isDrawing, currentStroke, previousStroke,
                   previousStrokeEndTime, currentStrokeStartTime, now, lastSubmission>>
    /\ UNCHANGED <<playVars, lastRecognition, setupVars>>

\* handlePointerUp while not drawing: early return
UpIgnored(src) ==
    /\ ~isDraggingSlider
    /\ ~isDrawing
    /\ last' = Quiet
    /\ UNCHANGED <<gameVars, captureVars, now, lastSubmission>>
    /\ UNCHANGED <<playVars, lastRecognition, setupVars>>

\* handlePointerUp, stroke completion: single or combined submission
UpCompletesStroke(src) ==
    /\ ~isDraggingSlider
    /\ isDrawing
    /\ IsStrokeCompletion(currentStroke)
    /\ isDrawing' = FALSE
    /\ IF HasValidPreviousStroke(previousStroke, currentStrokeStartTime,
                                 previousStrokeEndTime, getMultiStrokeGracePeriodMs)
       THEN /\ last' = Ran("combined", CombinedCalls(previousStroke, currentStroke), FALSE)
            /\ lastSubmission' = CombinedSubmission
            /\ previousStroke' = PendingAfterCombined(previousStroke, currentStroke)
            /\ previousStrokeEndTime' = 0
       ELSE /\ last' = Ran("single", SingleCalls(currentStroke), FALSE)
            /\ lastSubmission' = SingleSubmission(currentStroke)
            /\ previousStroke' = currentStroke
            /\ previousStrokeEndTime' =
                   PendingEndTimeAfterSingle(currentStrokeStartTime, now)
    /\ currentStroke' = << >>
    /\ UNCHANGED <<gameVars, currentStrokeStartTime, isDraggingSlider, now>>
    /\ UNCHANGED <<playVars, lastRecognition, setupVars>>

\* handlePointerUp, tap: getCanvasCoordinates, onPopAction(x, y), clear the
\* pending previous stroke
UpTaps(src, x, y, closeHit) ==
    /\ ~isDraggingSlider
    /\ isDrawing
    /\ ~IsStrokeCompletion(currentStroke)
    /\ isDrawing' = FALSE
    /\ IF CoordsThrow(src, "up")
       THEN /\ last' = RanTap(<< >>, TRUE)
            /\ UNCHANGED <<currentState, currentStroke, previousStroke,
                           previousStrokeEndTime>>
       ELSE /\ last' = RanTap(TapCalls(x, y), FALSE)
            /\ currentState' = onPopAction(currentState, closeHit)
            /\ previousStroke' = Null
            /\ previousStrokeEndTime' = 0
            /\ currentStroke' = << >>
    /\ UNCHANGED <<gestureTimingSeconds, currentStrokeStartTime,
                   isDraggingSlider, now, lastSubmission>>
    /\ UNCHANGED <<playVars, lastRecognition, setupVars>>

handlePointerUp(src, x, y, closeHit) ==
    \/ UpReleasesSlider(src)
    \/ UpIgnored(src)
    \/ UpCompletesStroke(src)
    \/ UpTaps(src, x, y, closeHit)

\* keydown listener: Escape calls onQuitAction and nothing else
KeydownEscape ==
    /\ currentState' = onQuitAction(currentState)
    /\ last' = Quiet
    /\ UNCHANGED <<gestureTimingSeconds, captureVars, now, lastSubmission>>
    /\ UNCHANGED <<playVars, lastRecognition, setupVars>>

\* gameLoop, one animation frame.  drawGame runs in GAME and PAUSE_CONFIRM
\* and calls cleanupExpiredStrokes; checkEndGameCondition runs in GAME and
\* ends the game when the game time is up.  The game clock (gameStartTime,
\* gameSettings.gameTimeMinutes) is not read by the input handlers: any
\* frame of GAME may be the one that finds the time up.
GameLoop ==
    /\ IF currentState \in {GameState.GAME, GameState.PAUSE_CONFIRM}
       THEN previousStroke' = cleanupExpiredStrokes(previousStroke,
                                  previousStrokeEndTime, getMultiStrokeGracePeriodMs)
       ELSE UNCHANGED previousStroke
    /\ IF currentState = GameState.GAME
       THEN currentState' \in {GameState.GAME, GameState.END_GAME}
       ELSE UNCHANGED currentState
    /\ last' = Quiet
    /\ UNCHANGED <<gestureTimingSeconds, isDrawing, currentStroke,
                   previousStrokeEndTime, currentStrokeStartTime,
                   isDraggingSlider, now, lastSubmission>>
    /\ UNCHANGED <<playVars, lastRecognition, setupVars>>

\* the wall clock advances between two handlers
Tick ==
    /\ now < MaxTicks * 1000
    /\ now' = now + 1000
    /\ last' = Quiet
    /\ UNCHANGED <<gameVars, captureVars, lastSubmission, playVars, lastRecognition, setupVars>>

\* the inputs an event carries are enumerated where the handler reads them:
\* a pointer-down on a button or control lies at that target's place, and
\* a pointer-up reads its coordinates and the close button only for a tap
DownCoords(target) == IF target = "none" THEN Coords ELSE {<<0, 0>>}

UpIsTap == isDrawing /\ ~isDraggingSlider /\ ~IsStrokeCompletion(currentStroke)

UpCoords == IF UpIsTap THEN Coords ELSE {<<0, 0>>}

CloseHits == IF UpIsTap /\ currentState = GameState.GAME THEN BOOLEAN ELSE {FALSE}

PointerDown == \E target \in Targets(currentState) : \E c \in DownCoords(target) :
                   handlePointerDown(c[1], c[2], target)

PointerMove == \E c \in Coords : handlePointerMove(c[1], c[2])

PointerUp == \E src \in Sources, c \in UpCoords, closeHit \in CloseHits :
                 handlePointerUp(src, c[1], c[2], closeHit)

Next == PointerDown \/ PointerMove \/ PointerUp \/ KeydownEscape \/ GameLoop \/ Tick

Spec == Init /\ [][Next]_vars

----------------------------------------------------------------------------
(* The game in play: the callbacks of main.js and the frame loop, with their
   whole effect on the bubbles, the counters, the background effect and the
   game state.  The capture state of inputHandler.js is not read by them and
   stays as it is; the callbacks are driven by the calls the handlers above
   make: onButtonClickAction and onSettingsInput at a pointer-down,
   onPopAction at a tap, onSymbolRecognized at a stroke completion,
   onQuitAction at Escape.  The games are played with the default settings
   (the controls of the settings screen are not operated). *)

\* resetGame, called by the New Game button
resetGameMutKeepCounts ==
    /\ bubbles' = << >>
    /\ gameStartTime' = now
    /\ backgroundEffect' = NoEffect
    /\ difficulty' = calculateDifficultyValues(0)
    /\ UNCHANGED <<popCount, specialPopCount, missedCount, lastSpawnTime>>

\* resetGame without the reset of the difficulty values
resetGameMutKeepDifficulty ==
    /\ bubbles' = << >>
    /\ popCount' = 0
    /\ specialPopCount' = 0
    /\ missedCount' = 0
    /\ gameStartTime' = now
    /\ backgroundEffect' = NoEffect
    /\ UNCHANGED <<difficulty, lastSpawnTime>>

resetGame ==
    /\ bubbles' = << >>
    /\ popCount' = 0
    /\ specialPopCount' = 0
    /\ missedCount' = 0
    /\ gameStartTime' = now
    /\ backgroundEffect' = NoEffect
    /\ difficulty' = calculateDifficultyValues(0)
    /\ UNCHANGED lastSpawnTime

\* onButtonClickAction(x, y) when a button of the current screen is clicked
GameButton(target) ==
    /\ ButtonClicked(currentState, target)
    /\ currentState' = onButtonClickAction(currentState, target)
    /\ IF currentState = GameState.MENU /\ target = "New Game"
       THEN resetGame
       ELSE UNCHANGED playVars
    /\ lastRecognition' = NoRecognition
    /\ UNCHANGED <<gestureTimingSeconds, captureVars, setupVars, now, last, lastSubmission>>

\* onSettingsInput when handleInput returns 'back'
GameSettingsBack ==
    /\ currentState = GameState.SETTINGS
    /\ currentState' = GameState.MENU
    /\ lastRecognition' = NoRecognition
    /\ UNCHANGED <<gestureTimingSeconds, captureVars, setupVars, now, last, lastSubmission,
                   playVars>>

\* onQuitAction
GameEscape ==
    /\ currentState' = onQuitAction(currentState)
    /\ lastRecognition' = NoRecognition
    /\ UNCHANGED <<gestureTimingSeconds, captureVars, setupVars, now, last, lastSubmission,
                   playVars>>

\* onPopAction(x, y); closeHit is isCloseButtonClicked(x, y)
GameTap(x, y, closeHit) ==
    /\ currentState' = onPopAction(currentState, closeHit)
    /\ IF currentState = GameState.GAME /\ ~closeHit
       THEN /\ bubbles' = popBubbles(bubbles, x, y)
            /\ popCount' = popCount + poppedCount(bubbles, x, y)
            /\ difficulty' =
                  IF poppedCount(bubbles, x, y) > 0
                  THEN calculateDifficultyValues(
                           popCount + poppedCount(bubbles, x, y) + specialPopCount)
                  ELSE difficulty
            /\ lastRecognition' =
                  Recognition("tap", FALSE, NoResult, FALSE, poppedCount(bubbles, x, y))
       ELSE /\ UNCHANGED <<bubbles, popCount, difficulty>>
            /\ lastRecognition' = Recognition("tap", FALSE, NoResult, FALSE, 0)
    /\ UNCHANGED <<gestureTimingSeconds, captureVars, setupVars, now, last, lastSubmission,
                   specialPopCount, missedCount, backgroundEffect,
                   gameStartTime, lastSpawnTime>>

\* onSymbolRecognized(points); result is what recognizer.Recognize(points)
\* returns when it is called
GameGesture(result) ==
    /\ IF RecognitionRuns(currentState)
       THEN LET cleared == clearedCount(bubbles, result.Name)
            IN  IF MeetsThreshold(result.Score)
                THEN /\ bubbles' = clearMatchingBubbles(bubbles, result.Name)
                     /\ specialPopCount' = specialPopCount + cleared
                     /\ difficulty' =
                           IF cleared > 0
                           THEN calculateDifficultyValues(
                                    popCount + specialPopCount + cleared)
                           ELSE difficulty
                     /\ backgroundEffect' =
                           IF cleared > 0
                           THEN triggerBackgroundEffect(result.Name)
                           ELSE backgroundEffect
                     /\ lastRecognition' =
                           Recognition("gesture", TRUE, result, TRUE, cleared)
                ELSE /\ UNCHANGED <<bubbles, specialPopCount, difficulty,
                                    backgroundEffect>>
                     /\ lastRecognition' =
                           Recognition("gesture", TRUE, result, FALSE, 0)
       ELSE /\ UNCHANGED <<bubbles, specialPopCount, difficulty, backgroundEffect>>
            /\ lastRecognition' = Recognition("gesture", FALSE, NoResult, FALSE, 0)
    /\ UNCHANGED <<gameVars, captureVars, setupVars, now, last, lastSubmission,
                   popCount, missedCount, gameStartTime, lastSpawnTime>>

\* gameLoop, one frame: drawGame in GAME and PAUSE_CONFIRM (background
\* effect, bubble loop), then in GAME checkEndGameCondition and
\* checkSpawnCondition with spawnBubble
GameFrame ==
    /\ currentState \in {GameState.GAME, GameState.PAUSE_CONFIRM}
    /\ backgroundEffect' = drawBackgroundEffect(backgroundEffect)
    /\ missedCount' = missedCount + MissedBubbles(bubbles)
    /\ IF currentState = GameState.GAME
       THEN /\ currentState' = checkEndGameCondition(currentState)
            /\ IF SpawnDue(AliveBubbles(bubbles))
               THEN /\ \E x \in SpawnXs, radius \in Radii, speedY \in Speeds,
                          specialType \in SpawnTypes :
                          bubbles' = Append(AliveBubbles(bubbles),
                                            Bubble(x, CanvasHeight + radius, radius,
                                                   specialType, speedY))
                    /\ lastSpawnTime' = now
               ELSE /\ bubbles' = AliveBubbles(bubbles)
                    /\ UNCHANGED lastSpawnTime
       ELSE /\ bubbles' = AliveBubbles(bubbles)
            /\ UNCHANGED <<currentState, lastSpawnTime>>
    /\ lastRecognition' = NoRecognition
    /\ UNCHANGED <<gestureTimingSeconds, captureVars, setupVars, now, last, lastSubmission,
                   popCount, specialPopCount, gameStartTime, difficulty>>

\* gameLoop, one frame on the other screens: nothing of the game changes
GameFrameIdle ==
    /\ currentState \notin {GameState.GAME, GameState.PAUSE_CONFIRM}
    /\ lastRecognition' = NoRecognition
    /\ UNCHANGED <<gameVars, captureVars, setupVars, now, last, lastSubmission, playVars>>

\* the wall clock advances between two callbacks
GameTick ==
    /\ now < MaxGameTicks * 1500
    /\ now' = now + 1500
    /\ lastRecognition' = NoRecognition
    /\ UNCHANGED <<gameVars, captureVars, setupVars, last, lastSubmission, playVars>>

GameButtonClick == \E target \in Targets(currentState) : GameButton(target)

GameTapAction == \E c \in Coords, closeHit \in BOOLEAN : GameTap(c[1], c[2], closeHit)

GameGestureAction == \E result \in RecognitionResults : GameGesture(result)

gameLoop == GameFrame \/ GameFrameIdle

GameNext ==
    \/ GameButtonClick
    \/ GameSettingsBack
    \/ GameEscape
    \/ GameTapAction
    \/ GameGestureAction
    \/ gameLoop
    \/ GameTick

GameSpec == Init /\ [][GameNext]_vars

----------------------------------------------------------------------------
(* A session: the player moves between the screens, sets the game duration *)
(* on the settings screen, starts, pauses and ends games while the frame   *)
(* loop runs and minutes pass.  Nothing is drawn or tapped.                *)

\* SettingsManager.updateSettings after the time slider was set to a preset
SettingsTime(minutes) ==
    /\ currentState = GameState.SETTINGS
    /\ settingsManager' =
          [settingsManager EXCEPT ![timeSlider][1] = 100 * findIndex(minutes)]
    /\ gameSettings' = [gameSettings EXCEPT !.gameTimeMinutes = minutes]
    /\ lastRecognition' = NoRecognition
    /\ UNCHANGED <<gameVars, captureVars, now, last, lastSubmission, playVars,
                   recognizer>>

\* a minute passes between two callbacks
SessionTick ==
    /\ now < MaxSessionTicks * 60000
    /\ now' = now + 60000
    /\ lastRecognition' = NoRecognition
    /\ UNCHANGED <<gameVars, captureVars, last, lastSubmission, playVars, setupVars>>

SessionNext ==
    \/ GameButtonClick
    \/ GameSettingsBack
    \/ \E minutes \in {-1, 1} : SettingsTime(minutes)
    \/ GameEscape
    \/ gameLoop
    \/ SessionTick

SessionSpec == Init /\ [][SessionNext]_vars

\* the frame loop keeps running (requestAnimationFrame) and time passes
LiveSessionSpec == SessionSpec /\ WF_vars(gameLoop) /\ WF_vars(SessionTick)

----------------------------------------------------------------------------
(* The difficulty curve on its own: calculateDifficultyValues applied to    *)
(* growing totalPops under each setting of baby mode and of the multiplier. *)

\* a game just started (New Game at the page load) under one of the settings
DifficultyInit ==
    /\ currentState = GameState.GAME
    /\ now = 0
    /\ InitCapture
    /\ bubbles = << >>
    /\ popCount = 0
    /\ specialPopCount = 0
    /\ missedCount = 0
    /\ backgroundEffect = NoEffect
    /\ gameStartTime = 0
    /\ lastSpawnTime = 0 - PageLoadTime
    /\ gameSettings \in
          {[DefaultSettings EXCEPT !.babyMode = b, !.difficultyMultiplier = m] :
              b \in BOOLEAN, m \in {5, 10, 13, 20}}
    /\ settingsManager = SettingsManager(gameSettings, gestureTimingSeconds)
    /\ difficulty = calculateDifficultyValues(0)

\* updateDifficulty after one more pop
updateDifficulty ==
    /\ popCount < MaxPops
    /\ popCount' = popCount + 1
    /\ difficulty' = calculateDifficultyValues(popCount' + specialPopCount)
    /\ UNCHANGED <<gameVars, captureVars, now, last, lastSubmission, bubbles,
                   specialPopCount, missedCount, backgroundEffect, gameStartTime,
                   lastSpawnTime, lastRecognition, setupVars>>

DifficultySpec == DifficultyInit /\ [][updateDifficulty]_vars

----------------------------------------------------------------------------
(* A crowded game: play is taken up in a game that has been running for    *)
(* 30 s, with a screen full of bubbles that have just been spawned.  The   *)
(* grid of the model holds the crowd on one line; in the program it is     *)
(* spread over the height of the canvas.                                   *)

\* n bubbles just spawned
Crowd(n) == [i \in 1..n |-> Bubble(5, CanvasHeight + 5, 5, "none", 5)]

\* a game in play with a crowd no larger than its current maximum, the
\* last spawn 1500 ms or no time ago
CrowdInit ==
    /\ currentState = GameState.GAME
    /\ now = CrowdStart
    /\ InitCapture
    /\ gameSettings \in {[DefaultSettings EXCEPT !.babyMode = b] : b \in BOOLEAN}
    /\ settingsManager = SettingsManager(gameSettings, gestureTimingSeconds)
    /\ popCount \in {0, 1, 50}
    /\ specialPopCount = 0
    /\ missedCount = 0
    /\ backgroundEffect = NoEffect
    /\ gameStartTime = 0
    /\ lastSpawnTime \in {CrowdStart - 1500, CrowdStart}
    /\ difficulty = calculateDifficultyValues(popCount)
    /\ bubbles \in {Crowd(n) : n \in {m \in {14, 15, 19, 20, 29, 30} :
                                       m * 100 <= difficulty.maxBubbles}}

\* the wall clock advances between two callbacks
CrowdTick ==
    /\ now < CrowdStart + MaxCrowdTicks * 1500
    /\ now' = now + 1500
    /\ lastRecognition' = NoRecognition
    /\ UNCHANGED <<gameVars, captureVars, last, lastSubmission, playVars, setupVars>>

CrowdNext ==
    \/ GameButtonClick
    \/ GameEscape
    \/ GameTapAction
    \/ gameLoop
    \/ CrowdTick

CrowdSpec == CrowdInit /\ [][CrowdNext]_vars

----------------------------------------------------------------------------
(* The settings screen: the player opens it from the menu, leaves it by    *)
(* Back or Escape and, on and off it, presses, drags and releases the      *)
(* pointer on and off the controls; the window is resized in height.  No   *)
(* game is started.  onSettingsInput is called                             *)
(* as inputHandler.js calls it: (x, y, true, false) at a pointer-down,     *)
(* (x, y, false, true) at a move and (x, y, false, false) at a pointer-up. *)

\* where a pointer-down lands on each row (row 0 is the row of no control):
\* on and beside the toggle; left of a track, at its ends, inside it and
\* right of it
PressXs(row) ==
    CASE row = babyModeToggle      -> {30, 70}
      [] row = difficultySlider    -> {-10, 0, 160, 310}
      [] row = specialBubbleSlider -> {-10, 300}
      [] row = gestureTimingSlider -> {-10, 0, 310}
      [] row = timeSlider          -> {20, 310}
      [] OTHER                     -> {30}

\* where a move takes the pointer: beyond either end of the tracks, to their
\* ends and inside them, at positions where the value of every slider being
\* dragged is a whole number of its unit
DragXs ==
    {x \in {-40, 75, 100, 340} :
        \A name \in SliderNames :
            isDragging(settingsManager[name]) =>
                (ratio(x) * (SliderMax(name) - SliderMin(name))) % sliderWidth = 0}

\* onSettingsInput(x, y, isDown, isDrag), the pointer not on the Back button;
\* lastRecognition records the kind of the input and whether it was handled
onSettingsInput(kind, x, row, isDown, isDrag) ==
    /\ IF currentState = GameState.SETTINGS
       THEN /\ settingsManager' = handleInput(settingsManager, x, row, isDown, isDrag)
            /\ IF Handled(settingsManager, x, row, isDown, isDrag)
               THEN /\ gameSettings' = updateSettings(settingsManager')
                    /\ gestureTimingSeconds' = value(settingsManager'[gestureTimingSlider])
               ELSE UNCHANGED <<gameSettings, gestureTimingSeconds>>
            /\ lastRecognition' =
                  Recognition(kind, Handled(settingsManager, x, row, isDown, isDrag),
                              NoResult, FALSE, 0)
       ELSE /\ UNCHANGED <<settingsManager, gameSettings, gestureTimingSeconds>>
            /\ lastRecognition' = Recognition(kind, FALSE, NoResult, FALSE, 0)
    /\ UNCHANGED <<currentState, captureVars, now, last, lastSubmission, playVars,
                   recognizer>>

SettingsPress ==
    \E row \in {0, babyModeToggle} \cup SliderNames : \E x \in PressXs(row) :
        onSettingsInput("press", x, row, TRUE, FALSE)

SettingsDrag == \E x \in DragXs : onSettingsInput("drag", x, 0, FALSE, TRUE)

SettingsRelease == onSettingsInput("release", 0, 0, FALSE, FALSE)

\* setCanvasDimensions at a resize of the window that keeps its width
setCanvasDimensions ==
    /\ settingsManager' = SettingsManager(gameSettings, gestureTimingSeconds)
    /\ lastRecognition' = NoRecognition
    /\ UNCHANGED <<gameVars, captureVars, now, last, lastSubmission, playVars,
                   gameSettings, recognizer>>

SettingsNext ==
    \/ GameButton("Settings")
    \/ GameSettingsBack
    \/ GameEscape
    \/ SettingsPress
    \/ SettingsDrag
    \/ SettingsRelease
    \/ setCanvasDimensions

SettingsSpec == Init /\ [][SettingsNext]_vars

----------------------------------------------------------------------------
(* Games under changing settings: the game in play as in GameSpec, with    *)
(* pointer-downs on the baby mode toggle and on the right end of the       *)
(* difficulty track arriving on every screen.                              *)

TunedNext ==
    \/ GameButtonClick
    \/ GameSettingsBack
    \/ GameEscape
    \/ GameTapAction
    \/ GameGestureAction
    \/ gameLoop
    \/ GameTick
    \/ \E p \in {<<babyModeToggle, 30>>, <<difficultySlider, 300>>} :
          onSettingsInput("press", p[2], p[1], TRUE, FALSE)

TunedSpec == Init /\ [][TunedNext]_vars

----------------------------------------------------------------------------
(* The recognizer and its template store on their own: templates are       *)
(* added and removed and candidates are recognized; nothing else runs.     *)

\* the candidates: the distance of the drawn points to each point set (the
\* point set itself, a near one, one beyond the half diagonal)
Candidates == [PointSets -> {0, 3, 7}]

\* what no operation of the recognizer touches
outsideRecognizer ==
    <<gameVars, captureVars, now, last, playVars, gameSettings, settingsManager>>

\* recognizer.add(name, rawPoints)
StoreAdd(name, points) ==
    /\ Len(recognizer) < MaxTemplates
    /\ recognizer' = AddGesture(recognizer, name, points)
    /\ lastRecognition' = NoRecognition
    /\ UNCHANGED <<lastSubmission, outsideRecognizer>>

\* recognizer.remove(name)
StoreRemove(name) ==
    /\ recognizer' = RemoveGesture(recognizer, name)
    /\ lastRecognition' = NoRecognition
    /\ UNCHANGED <<lastSubmission, outsideRecognizer>>

\* recognizer.recognize(candidate)
StoreRecognize(candidate) ==
    /\ lastRecognition' =
          Recognition("recognize", TRUE, RecognizeIn(recognizer, candidate), FALSE, 0)
    /\ lastSubmission' = CandidateSubmission(candidate)
    /\ UNCHANGED <<recognizer, outsideRecognizer>>

RecognizerNext ==
    \/ \E name \in {"circle", "X"}, points \in PointSets : StoreAdd(name, points)
    \/ \E name \in RemoveNames : StoreRemove(name)
    \/ \E candidate \in Candidates : StoreRecognize(candidate)

RecognizerSpec == Init /\ [][RecognizerNext]_vars

----------------------------------------------------------------------------
(* Properties of the stroke capture state machine *)

\* the step is a pointer-up that reaches the tap/stroke classification
Classifies == isDrawing /\ ~isDraggingSlider /\ last'.handler = "up"

\* the buffer is a non-tap stroke: more than one point and first-to-last
\* distance above 5
NonTap(stroke) ==
    /\ Len(stroke) >= 2
    /\ DistSq(stroke[1].X, stroke[1].Y, stroke[Len(stroke)].X, stroke[Len(stroke)].Y) > 25

IsRecognition(call) == call.fn = "onSymbolRecognized"

\* C1: every pointer-up that completes a non-tap stroke invokes the
\* recognition callback exactly once, with the current stroke alone or with
\* the pending previous stroke followed by the current stroke, and invokes
\* nothing else.
C1_OneSubmissionPerStroke ==
    [][(Classifies /\ NonTap(currentStroke)) =>
          /\ Len(last'.calls) = 1
          /\ IsRecognition(last'.calls[1])
          /\ \/ last'.calls[1].points = currentStroke
             \/ previousStroke # Null
                /\ last'.calls[1].points = previousStroke \o currentStroke]_vars

C1_Witness ==
    /\ last.handler = "up"
    /\ last.branch \in {"single", "combined"}
    /\ Len(last.calls) = 1
    /\ IsRecognition(last.calls[1])

\* C2 as stated: a non-tap stroke completed while a previous stroke is
\* pending is combined if and only if the time of its pointer-up minus
\* previousStrokeEndTime is at most the grace period.
C2_Original ==
    [][(Classifies /\ NonTap(currentStroke) /\ previousStroke # Null) =>
          ((last'.branch = "combined") <=>
              (now - previousStrokeEndTime <= gestureTimingSeconds * 1000))]_vars

\* C2 amended: a non-tap stroke completed while a previous stroke is pending
\* is combined if and only if the time of its pointer-down minus
\* previousStrokeEndTime is at most the grace period, whenever it is released.
C2_CombinedIffStartedInGrace ==
    [][(Classifies /\ NonTap(currentStroke) /\ previousStroke # Null) =>
          ((last'.branch = "combined") <=>
              (currentStrokeStartTime - previousStrokeEndTime
                   <= gestureTimingSeconds * 1000))]_vars

\* a combined submission of a stroke that lasted longer than the grace
\* period, so that it was released after the window
C2_Witness ==
    /\ last.handler = "up"
    /\ last.branch = "combined"
    /\ last.pending
    /\ now - currentStrokeStartTime > gestureTimingSeconds * 1000

\* C3: in a combined submission every point of the first stroke carries
\* stroke id 1 and every point of the second stroke carries stroke id 2.
C3_StrokeIds ==
    [][(Classifies /\ last'.branch = "combined") =>
          \A i \in 1..Len(last'.calls[1].points) :
              last'.calls[1].points[i].ID = IF i <= Len(previousStroke) THEN 1 ELSE 2]_vars

\* C4: when a non-tap stroke is completed within the grace period of a
\* pending stroke, the preceding recognition call was that pending stroke
\* alone and this pointer-up makes exactly one call, whose points are the
\* pending stroke's points followed by the current stroke's points.
C4_SingleThenCombined ==
    [][(Classifies /\ NonTap(currentStroke) /\ previousStroke # Null
           /\ currentStrokeStartTime - previousStrokeEndTime
                  <= gestureTimingSeconds * 1000) =>
          /\ lastSubmission = SingleSubmission(previousStroke)
          /\ last'.calls = <<RecognizeCall(previousStroke \o currentStroke)>>
          /\ lastSubmission'.kind = "combined"]_vars

C4_Witness ==
    /\ last.handler = "up"
    /\ last.branch = "combined"
    /\ last.after = "single"
    /\ Len(last.calls) = 1
    /\ Len(last.calls[1].points) = 4
    /\ last.calls[1].points[1] # last.calls[1].points[3]

\* C5: when a non-tap stroke is completed and the gap from the pending
\* stroke's pointer-up to this stroke's pointer-down exceeds the grace
\* period, the preceding recognition call was the pending stroke alone, this
\* pointer-up submits the current stroke alone, and the current stroke
\* replaces the pending one.
C5_GapExceededSubmitsAlone ==
    [][(Classifies /\ NonTap(currentStroke) /\ previousStroke # Null
           /\ currentStrokeStartTime - previousStrokeEndTime
                  > gestureTimingSeconds * 1000) =>
          /\ lastSubmission = SingleSubmission(previousStroke)
          /\ last'.calls = <<RecognizeCall(currentStroke)>>
          /\ lastSubmission' = SingleSubmission(currentStroke)
          /\ previousStroke' = currentStroke
          /\ previousStrokeEndTime' = now]_vars

\* a stroke submitted alone although a previous stroke was pending
C5_Witness ==
    /\ last.handler = "up"
    /\ last.branch = "single"
    /\ last.pending
    /\ last.after = "single"
    /\ previousStroke = last.calls[1].points

\* C6: Escape returns the capture state machine to IDLE, discards the
\* stroke buffer and the pending previous stroke, and submits nothing.
C6_EscapeResetsCapture ==
    [][KeydownEscape =>
          /\ ~isDrawing'
          /\ currentStroke' = << >>
          /\ previousStroke' = Null
          /\ last'.calls = << >>]_vars

\* C7: a pointer-up classified as a tap invokes the tap callback exactly
\* once and never the recognition callback.
C7_TapPopsOnce ==
    [][(Classifies /\ ~NonTap(currentStroke)) =>
          /\ Len(last'.calls) = 1
          /\ last'.calls[1].fn = "onPopAction"]_vars

\* C8: at pointer-up while drawing the gesture is a tap if and only if the
\* buffer holds at most one point or the distance from the first to the last
\* buffered point is at most 5; otherwise it is a stroke completion.
C8_TapClassification ==
    [][Classifies =>
          LET n == Len(currentStroke)
              tap == \/ n <= 1
                     \/ DistSq(currentStroke[1].X, currentStroke[1].Y,
                               currentStroke[n].X, currentStroke[n].Y)
                            <= MIN_DRAG_DISTANCE * MIN_DRAG_DISTANCE
          IN  /\ (last'.branch = "tap") <=> tap
              /\ (last'.branch \in {"single", "combined"}) <=> ~tap
              /\ tap => \A i \in 1..Len(last'.calls) : ~IsRecognition(last'.calls[i])]_vars

\* a path of three points that returns to within 5 of its start is a tap
C8_Witness ==
    /\ last.handler = "up"
    /\ last.branch = "tap"
    /\ last.n = 3

\* C9: after any tap there is no pending previous stroke.
C9_TapClearsPending ==
    [][(Classifies /\ ~NonTap(currentStroke)) =>
          /\ previousStroke' = Null
          /\ previousStrokeEndTime' = 0]_vars

\* C10: a submission holds the points of at most two strokes: the pending
\* previous stroke is always the single stroke of the most recent
\* submission, a combined submission leaves no pending stroke, and a non-tap
\* stroke completed after a combined submission is submitted alone and
\* becomes the new pending stroke.
C10_AtMostTwoStrokes ==
    [][/\ previousStroke' # Null => lastSubmission' = SingleSubmission(previousStroke')
       /\ lastSubmission'.kind = "combined" => previousStroke' = Null
       /\ (Classifies /\ NonTap(currentStroke) /\ lastSubmission.kind = "combined") =>
             /\ last'.calls = <<RecognizeCall(currentStroke)>>
             /\ previousStroke' = currentStroke]_vars

\* a third stroke submitted alone right after a combined submission, all
\* within the grace period
C10_Witness ==
    /\ last.handler = "up"
    /\ last.branch = "single"
    /\ last.after = "combined"
    /\ now <= 1000
    /\ previousStroke = last.calls[1].points

\* C11: a completed non-tap stroke that is not combined (no stroke pending,
\* or the pending one outside the grace window) is submitted alone, and
\* afterwards the pending previous stroke is exactly that stroke's points,
\* previousStrokeEndTime is the time of this pointer-up and the stroke
\* buffer is empty.
C11_UncombinedBecomesPending ==
    [][(Classifies /\ NonTap(currentStroke)
           /\ ~(previousStroke # Null
                  /\ currentStrokeStartTime - previousStrokeEndTime
                         <= gestureTimingSeconds * 1000)) =>
          /\ last'.calls = <<RecognizeCall(currentStroke)>>
          /\ previousStroke' = currentStroke
          /\ previousStrokeEndTime' = now
          /\ currentStroke' = << >>]_vars

\* a first stroke, begun before and released after a clock step, submitted
\* alone and left pending with the time of its release
C11_Witness ==
    /\ last.handler = "up"
    /\ last.branch = "single"
    /\ ~last.pending
    /\ previousStroke = last.calls[1].points
    /\ previousStrokeEndTime = now
    /\ currentStrokeStartTime < now
    /\ currentStroke = << >>

\* C12: the grace window is closed: a non-tap stroke that begins exactly one
\* grace period after the pending stroke ended is combined, and a completed
\* non-tap stroke with a stroke pending is submitted alone only when the gap
\* is strictly greater than the grace period.
C12_ClosedGraceInterval ==
    [][(Classifies /\ NonTap(currentStroke) /\ previousStroke # Null) =>
          /\ (currentStrokeStartTime - previousStrokeEndTime
                  = gestureTimingSeconds * 1000) => last'.branch = "combined"
          /\ last'.branch # "combined" =>
                 currentStrokeStartTime - previousStrokeEndTime
                     > gestureTimingSeconds * 1000]_vars

\* a combined submission whose second stroke began exactly at the boundary
C12_Witness ==
    /\ last.handler = "up"
    /\ last.branch = "combined"
    /\ last.edge
    /\ previousStroke = Null

\* C13: while drawing, a pointer-move appends its point when the distance
\* from the last buffered point is strictly greater than 5 and leaves the
\* buffer unchanged otherwise; while not drawing it changes no capture
\* state; it never calls the tap or the recognition callback.
C13_MoveAppendsFarPoints ==
    [][(last'.handler = "other" /\ now' = now /\ currentState' = currentState) =>
       \A c \in Coords :
          handlePointerMove(c[1], c[2]) =>
             /\ last'.calls = << >>
             /\ lastSubmission' = lastSubmission
             /\ UNCHANGED <<isDrawing, previousStroke, previousStrokeEndTime,
                            currentStrokeStartTime, isDraggingSlider>>
             /\ IF isDrawing /\ ~isDraggingSlider
                THEN LET n == Len(currentStroke)
                         d2 == DistSq(currentStroke[n].X, currentStroke[n].Y,
                                      c[1], c[2])
                     IN  IF d2 > MIN_DRAG_DISTANCE * MIN_DRAG_DISTANCE
                         THEN currentStroke' = Append(currentStroke, Point(c[1], c[2], 1))
                         ELSE currentStroke' = currentStroke
                ELSE currentStroke' = currentStroke]_vars

\* a buffer of three points whose last point is within 5 of the first: it
\* was appended because it is farther than 5 from the second
C13_Witness ==
    /\ isDrawing
    /\ Len(currentStroke) = 3
    /\ DistSq(currentStroke[1].X, currentStroke[1].Y,
              currentStroke[3].X, currentStroke[3].Y)
           <= MIN_DRAG_DISTANCE * MIN_DRAG_DISTANCE
    /\ DistSq(currentStroke[2].X, currentStroke[2].Y,
              currentStroke[3].X, currentStroke[3].Y)
           > MIN_DRAG_DISTANCE * MIN_DRAG_DISTANCE

\* C14 as stated: from IDLE every pointer-down starts drawing with a buffer
\* that holds exactly the down point and leaves the pending stroke untouched.
C14_Original ==
    [][(~isDrawing /\ now' = now) =>
       \A c \in Coords, target \in Targets(currentState) :
          handlePointerDown(c[1], c[2], target) =>
             /\ isDrawing'
             /\ currentStroke' = <<Point(c[1], c[2], 1)>>
             /\ UNCHANGED <<previousStroke, previousStrokeEndTime>>]_vars

\* C14 amended: from IDLE a pointer-down that neither the settings screen
\* nor a button of the current screen takes starts drawing with a buffer
\* that holds exactly the down point; a pointer-down that one of them takes
\* leaves the machine in IDLE; in both cases the pending previous stroke and
\* its end time are untouched, whether or not the grace period has passed.
C14_DownStartsStrokeUnlessTaken ==
    [][(~isDrawing /\ now' = now /\ last'.handler = "other") =>
       \A c \in Coords, target \in Targets(currentState) :
          handlePointerDown(c[1], c[2], target) =>
             /\ UNCHANGED <<previousStroke, previousStrokeEndTime>>
             /\ IF \/ currentState = "settings" /\ target \in {"back", "control"}
                   \/ ButtonClicked(currentState, target)
                THEN UNCHANGED <<isDrawing, currentStroke>>
                ELSE /\ isDrawing'
                     /\ currentStroke' = <<Point(c[1], c[2], 1)>>
                     /\ currentStrokeStartTime' = now]_vars

\* a stroke started while a previous stroke is pending whose grace period
\* has already passed
C14_Witness ==
    /\ isDrawing
    /\ Len(currentStroke) = 1
    /\ currentStrokeStartTime = now
    /\ previousStroke # Null
    /\ now - previousStrokeEndTime > gestureTimingSeconds * 1000

\* C15: the grace period has no timer: a step that is not a pointer event
\* handler (the clock advancing, an animation frame, the Escape key) changes
\* neither the drawing flag, the stroke buffer nor the pending previous
\* stroke and submits nothing.
C15_NoTimer ==
    [][(Tick \/ GameLoop \/ KeydownEscape) =>
          /\ UNCHANGED <<isDrawing, currentStroke, previousStroke,
                         previousStrokeEndTime>>
          /\ last'.calls = << >>
          /\ lastSubmission' = lastSubmission]_vars

\* during a game a pending stroke is still there after its grace period has
\* passed with no pointer event
C15_Witness ==
    /\ currentState = "game"
    /\ ~isDrawing
    /\ previousStroke # Null
    /\ now - previousStrokeEndTime > gestureTimingSeconds * 1000
    /\ lastSubmission = SingleSubmission(previousStroke)

----------------------------------------------------------------------------
(* Properties of the game callbacks *)

\* the step is a call of onSymbolRecognized
Submits == lastRecognition'.kind = "gesture"

\* the bubble holds the point: its centre is nearer than its radius
Holds(bubble, x, y) ==
    (x - bubble.x) * (x - bubble.x) + (y - bubble.y) * (y - bubble.y)
        < bubble.radius * bubble.radius

\* the bubble as it is after being popped now
Popped(bubble) == [bubble EXCEPT !.popped = TRUE, !.popTime = now]

\* C16 as stated: for every recognition submission the recognizer is run on
\* the submitted points and its result is obtained by the caller; no
\* submission is dropped without a recognition attempt.
C16_Original ==
    [][Submits => lastRecognition'.ran]_vars

\* C16 amended: a recognition submission made while the game state is GAME
\* runs the recognizer and the caller obtains its (name, score) result, also
\* when the score is low; a submission made in any other state is dropped
\* without a recognition attempt and changes nothing.
C16_RecognizedOnlyInGame ==
    [][Submits =>
          /\ lastRecognition'.ran <=> currentState = "game"
          /\ lastRecognition'.ran =>
                /\ lastRecognition'.result \in RecognitionResults
                /\ \E i \in DOMAIN Templates :
                      lastRecognition'.result.Name = Templates[i]
          /\ ~lastRecognition'.ran =>
                /\ lastRecognition'.result = NoResult
                /\ UNCHANGED <<currentState, playVars>>]_vars

\* during a game a submission was recognized with a score too low to act on
C16_Witness ==
    /\ currentState = "game"
    /\ lastRecognition.kind = "gesture"
    /\ lastRecognition.ran
    /\ ~lastRecognition.accepted
    /\ lastRecognition.result.Score = 1

\* C17: a recognition result is acted on exactly when its score is at least
\* 0.4; a result with a lower score pops no bubble, changes no counter and
\* triggers no background effect, whatever its name.
C17_ThresholdGatesAction ==
    [][(Submits /\ lastRecognition'.ran) =>
          /\ lastRecognition'.accepted <=>
                lastRecognition'.result.Score * 10 >= 4 * HalfDiagonal
          /\ lastRecognition'.result.Score * 10 < 4 * HalfDiagonal =>
                UNCHANGED <<bubbles, popCount, specialPopCount, missedCount,
                            backgroundEffect, difficulty>>]_vars

\* a result below the threshold that names the type of an unpopped special
\* bubble on screen
C17_Witness ==
    /\ lastRecognition.kind = "gesture"
    /\ lastRecognition.ran
    /\ lastRecognition.result.Score * 10 < 4 * HalfDiagonal
    /\ \E i \in 1..Len(bubbles) :
          /\ bubbles[i].specialType = lastRecognition.result.Name
          /\ ~bubbles[i].popped

C19_GestureClearsMatching ==
    [][(Submits /\ lastRecognition'.accepted) =>
          LET S == lastRecognition'.result.Name
              matching == {i \in 1..Len(bubbles) :
                              bubbles[i].specialType = S /\ ~bubbles[i].popped}
          IN  /\ S # "none"
              /\ Len(bubbles') = Len(bubbles)
              /\ \A i \in 1..Len(bubbles) :
                    bubbles'[i] = IF i \in matching THEN Popped(bubbles[i])
                                  ELSE bubbles[i]
              /\ specialPopCount' = specialPopCount + Cardinality(matching)
              /\ lastRecognition'.cleared = Cardinality(matching)
              /\ UNCHANGED <<popCount, missedCount>>]_vars

\* an accepted gesture that popped a special bubble and left an unpopped
\* special bubble of another type
C19_Witness ==
    /\ lastRecognition.kind = "gesture"
    /\ lastRecognition.accepted
    /\ lastRecognition.cleared = 1
    /\ specialPopCount = 1
    /\ \E i, j \in 1..Len(bubbles) :
          /\ bubbles[i].specialType = lastRecognition.result.Name
          /\ bubbles[i].popped
          /\ bubbles[j].specialType \notin {"none", lastRecognition.result.Name}
          /\ ~bubbles[j].popped

\* C20: every recognition result has a score between 0 and 1 (as a
\* numerator over HalfDiagonal: between 0 and HalfDiagonal).
C20_ScoreInUnitInterval ==
    lastRecognition.ran =>
        /\ lastRecognition.result.Score >= 0
        /\ lastRecognition.result.Score <= HalfDiagonal

\* a recognition whose winning distance is beyond the half diagonal: the
\* score is clamped to 0
C20_Witness ==
    /\ lastRecognition.ran
    /\ lastRecognition.result.Score = 0
    /\ \A d \in Distances : d <= HalfDiagonal => HalfDiagonal - d > 0

----------------------------------------------------------------------------
(* Properties of the recognizer and its template store *)

\* the distance of the most recently recognized candidate to template i
DistanceToTemplate(i) == lastSubmission.points[recognizer[i].Points]

\* C21: recognize returns the name of a template at the smallest distance
\* from the candidate, and of several templates at that distance it returns
\* the first in insertion order.
C21_FirstNearestTemplate ==
    (lastRecognition.kind = "recognize" /\ Len(recognizer) > 0) =>
        \E i \in 1..Len(recognizer) :
            /\ lastRecognition.result.Name = recognizer[i].Name
            /\ \A j \in 1..Len(recognizer) :
                   DistanceToTemplate(i) <= DistanceToTemplate(j)
            /\ \A j \in 1..(i - 1) :
                   DistanceToTemplate(j) > DistanceToTemplate(i)

\* two templates of different names tie for the smallest distance and the
\* earlier one is returned
C21_Witness ==
    /\ lastRecognition.kind = "recognize"
    /\ \E i, j \in 1..Len(recognizer) :
          /\ i < j
          /\ recognizer[i].Name # recognizer[j].Name
          /\ DistanceToTemplate(i) = DistanceToTemplate(j)
          /\ \A k \in 1..Len(recognizer) :
                 DistanceToTemplate(i) <= DistanceToTemplate(k)
          /\ \A k \in 1..(i - 1) : DistanceToTemplate(k) > DistanceToTemplate(i)
          /\ lastRecognition.result.Name = recognizer[i].Name

\* the places of the store whose template is not named name
KeptPlaces(name) == {i \in 1..Len(recognizer) : recognizer[i].Name # name}

\* C22: add appends one template and keeps the others in place, also under
\* a name already stored; remove(name) leaves exactly the templates of other
\* names in their order and changes nothing when none has the name; a
\* recognition leaves the store alone and answers from the store as it is,
\* with the sentinel result when it is empty.
C22_StoreTotalOrdered ==
    [][/\ Len(recognizer') > Len(recognizer) =>
             /\ Len(recognizer') = Len(recognizer) + 1
             /\ \A i \in 1..Len(recognizer) : recognizer'[i] = recognizer[i]
       /\ \A name \in RemoveNames :
             StoreRemove(name) =>
                /\ Len(recognizer') = Cardinality(KeptPlaces(name))
                /\ \A i \in KeptPlaces(name) :
                       recognizer'[Cardinality({k \in KeptPlaces(name) : k <= i})]
                           = recognizer[i]
                /\ KeptPlaces(name) = 1..Len(recognizer) => recognizer' = recognizer
       /\ lastRecognition'.kind = "recognize" =>
             /\ recognizer' = recognizer
             /\ IF Len(recognizer) = 0
                THEN lastRecognition'.result = NoMatch
                ELSE \E i \in 1..Len(recognizer) :
                        lastRecognition'.result.Name = recognizer[i].Name]_vars

\* a recognition on a store from which "triangle" was removed and to which
\* a second template of a stored name was added, answering with that name
C22_Witness ==
    /\ lastRecognition.kind = "recognize"
    /\ \A i \in 1..Len(recognizer) : recognizer[i].Name # "triangle"
    /\ \E i, j \in 1..Len(recognizer) :
          /\ i < j
          /\ recognizer[i].Name = recognizer[j].Name
          /\ recognizer[i].Points # recognizer[j].Points
          /\ lastRecognition.result.Name = recognizer[j].Name
          /\ DistanceToTemplate(j) < DistanceToTemplate(i)

----------------------------------------------------------------------------
(* Properties of the game state machine *)

\* the time of the game in play has run out
TimeIsUp ==
    /\ gameSettings.gameTimeMinutes # -1
    /\ now - gameStartTime >= gameSettings.gameTimeMinutes * 60000

\* C23: Escape takes GAME to PAUSE_CONFIRM, PAUSE_CONFIRM to GAME, SETTINGS
\* and ABOUT to MENU, and leaves MENU and END_GAME as they are; the menu's
\* Quit button leaves the state MENU.
C23_EscapeTransitions ==
    [][/\ GameEscape =>
             currentState' =
                CASE currentState = "game"          -> "pause_confirm"
                  [] currentState = "pause_confirm" -> "game"
                  [] currentState = "settings"      -> "menu"
                  [] currentState = "about"         -> "menu"
                  [] currentState = "menu"          -> "menu"
                  [] currentState = "end_game"      -> "end_game"
       /\ GameButton("Quit") => (currentState = "menu" /\ currentState' = "menu")]_vars

\* a game paused by Escape after a minute of play (in a session only Escape
\* pauses)
C23_Witness ==
    /\ currentState = "pause_confirm"
    /\ gameStartTime >= 0
    /\ now - gameStartTime >= 60000

\* C24: END_GAME is entered only from GAME when the time of the game is up,
\* or from PAUSE_CONFIRM by the End Game button, so never by time from MENU,
\* ABOUT, SETTINGS or PAUSE_CONFIRM; END_GAME is left only to MENU.
C24_EndGameEntryAndExit ==
    [][/\ (currentState # "end_game" /\ currentState' = "end_game") =>
             \/ currentState = "game" /\ TimeIsUp
             \/ currentState = "pause_confirm" /\ GameButton("End Game")
       /\ (currentState = "end_game" /\ currentState' # "end_game") =>
             currentState' = "menu"]_vars

\* a one-minute game that is over once its minute has passed
C24_Witness ==
    /\ currentState = "end_game"
    /\ gameSettings.gameTimeMinutes = 1
    /\ now - gameStartTime = 60000

\* C25: with the duration Unlimited a step never takes the game to END_GAME
\* because of the time; END_GAME is entered only by the End Game button of
\* the pause dialog.
C25_UnlimitedNeverTimesOut ==
    [][(gameSettings.gameTimeMinutes = -1
          /\ currentState # "end_game" /\ currentState' = "end_game") =>
             (currentState = "pause_confirm" /\ GameButton("End Game"))]_vars

\* an Unlimited game still in play two minutes after it was started
C25_Witness ==
    /\ currentState = "game"
    /\ gameSettings.gameTimeMinutes = -1
    /\ gameStartTime >= 0
    /\ now - gameStartTime >= 120000

\* C26: a game of finite duration in play (with its end inside the time the
\* session lasts) leads to END_GAME unless the player pauses it.
C26_FiniteGameEnds ==
    (/\ currentState = "game"
     /\ gameSettings.gameTimeMinutes # -1
     /\ gameStartTime + gameSettings.gameTimeMinutes * 60000
            <= MaxSessionTicks * 60000)
        ~> (currentState \in {"end_game", "pause_confirm"})

\* a game of the default two minutes that is over after its two minutes
C26_Witness ==
    /\ currentState = "end_game"
    /\ gameSettings.gameTimeMinutes = 2
    /\ now - gameStartTime = 120000

----------------------------------------------------------------------------
(* Properties of the bubbles in play *)

\* the number of bubbles of the list that are not popped
Unpopped(list) == Cardinality({i \in 1..Len(list) : ~list[i].popped})

\* the places of the bubbles a tap or a gesture has just popped
JustPopped == {i \in 1..Len(bubbles) : ~bubbles[i].popped /\ bubbles'[i].popped}

\* the number of bubbles the step has spawned
Spawned == IF lastSpawnTime' # lastSpawnTime THEN 1 ELSE 0

\* C28: within a game a bubble is counted at most once.  A tap or gesture
\* leaves a popped bubble as it is and adds one to popCount for every normal
\* bubble and one to specialPopCount for every special bubble it pops, and
\* nothing to missedCount.  Every other step (but New Game) leaves popCount
\* and specialPopCount alone and adds to missedCount exactly the unpopped
\* bubbles that have left the screen, which are exactly the unpopped bubbles
\* that leave the list.
C28_CountedOnce ==
    [][IF lastRecognition'.kind \in {"tap", "gesture"}
       THEN /\ Len(bubbles') = Len(bubbles)
            /\ \A i \in 1..Len(bubbles) :
                   bubbles[i].popped => bubbles'[i] = bubbles[i]
            /\ popCount' = popCount + Cardinality(
                   {i \in JustPopped : bubbles[i].specialType = "none"})
            /\ specialPopCount' = specialPopCount + Cardinality(
                   {i \in JustPopped : bubbles[i].specialType # "none"})
            /\ missedCount' = missedCount
       ELSE ~(currentState = "menu" /\ currentState' = "game") =>
            /\ UNCHANGED <<popCount, specialPopCount>>
            /\ missedCount' = missedCount + Cardinality(
                   {i \in 1..Len(bubbles) :
                       /\ bubbles' # bubbles
                       /\ ~bubbles[i].popped
                       /\ bubbles[i].y + bubbles[i].radius <= 0})
            /\ Unpopped(bubbles') - Spawned
                   = Unpopped(bubbles) - (missedCount' - missedCount)]_vars

\* one bubble was popped and later removed without being counted as missed,
\* another left the screen unpopped and was counted as missed
C28_Witness ==
    /\ popCount = 1
    /\ missedCount = 1
    /\ bubbles = << >>

----------------------------------------------------------------------------
(* Properties of the difficulty curve *)

\* the values lie in the ranges of normal mode: spawnRate in [300, 1000] ms,
\* maxBubbles in [20, 30], minSpeed <= 0.4, maxSpeed <= 1.1, minSpeed <= maxSpeed
InNormalRanges(d) ==
    /\ d.spawnRate >= 3000 /\ d.spawnRate <= 10000
    /\ d.maxBubbles >= 2000 /\ d.maxBubbles <= 3000
    /\ d.minSpeed <= 4000
    /\ d.maxSpeed <= 11000
    /\ d.minSpeed <= d.maxSpeed

\* C30: in normal mode, for every multiplier, the values stay in their
\* ranges, spawnRate never increases and maxBubbles, minSpeed and maxSpeed
\* never decrease as totalPops grows, and the speeds stay at 0.4 and 1.1
\* once reached; in baby mode the values are the same for every totalPops.
C30_DifficultyMonotoneBounded ==
    [][IF gameSettings.babyMode
       THEN /\ difficulty' = difficulty
            /\ difficulty = [spawnRate |-> 15000, minSpeed |-> 1500,
                             maxSpeed |-> 4000, maxBubbles |-> 1500]
       ELSE /\ InNormalRanges(difficulty)
            /\ InNormalRanges(difficulty')
            /\ difficulty'.spawnRate <= difficulty.spawnRate
            /\ difficulty'.maxBubbles >= difficulty.maxBubbles
            /\ difficulty'.minSpeed >= difficulty.minSpeed
            /\ difficulty'.maxSpeed >= difficulty.maxSpeed
            /\ difficulty.minSpeed = 4000 => difficulty'.minSpeed = 4000
            /\ difficulty.maxSpeed = 11000 => difficulty'.maxSpeed = 11000]_vars

\* the slowest progression on all its plateaus after 100 pops
C30_Witness ==
    /\ ~gameSettings.babyMode
    /\ gameSettings.difficultyMultiplier = 5
    /\ popCount = 100
    /\ difficulty = [spawnRate |-> 3000, minSpeed |-> 4000,
                     maxSpeed |-> 11000, maxBubbles |-> 3000]

----------------------------------------------------------------------------
(* Properties of the number of bubbles *)

\* C29 as stated: the number of bubbles in the list never exceeds the
\* current maximum (currentMaxBubbles, in hundredths).
C29_Original ==
    Len(bubbles) * 100 <= difficulty.maxBubbles

----------------------------------------------------------------------------
(* Properties of the settings screen *)

\* C32: after any sequence of settings inputs (press, drag, release on the
\* toggle and the sliders) every setting is in its documented range:
\* difficultyMultiplier in [0.5, 2.0], specialBubbleFrequency in [0, 1],
\* gestureTimingSeconds in [1, 5]; gameTimeMinutes is the value of one of
\* the time presets and the discrete slider's selected index,
\* Math.round(value), is an index of timePresets.
C32_SettingsInRange ==
    /\ 5 <= gameSettings.difficultyMultiplier
    /\ gameSettings.difficultyMultiplier <= 20
    /\ 0 <= gameSettings.specialBubbleFrequency
    /\ gameSettings.specialBubbleFrequency <= 100
    /\ 1 <= gestureTimingSeconds
    /\ gestureTimingSeconds <= 5
    /\ \E i \in 1..Len(timePresets) : gameSettings.gameTimeMinutes = timePresets[i]
    /\ Round(value(settingsManager[timeSlider])) \in 0..(Len(timePresets) - 1)
    /\ gameSettings.gameTimeMinutes = selectedPreset(settingsManager[timeSlider])

\* a drag has taken three sliders at once beyond the right end of their
\* tracks after the gesture timing slider was set to its minimum and the
\* toggle switched on
C32_Witness ==
    /\ currentState = GameState.SETTINGS
    /\ lastRecognition = Recognition("drag", TRUE, NoResult, FALSE, 0)
    /\ isDragging(settingsManager[difficultySlider])
    /\ isDragging(settingsManager[specialBubbleSlider])
    /\ isDragging(settingsManager[timeSlider])
    /\ gameSettings.difficultyMultiplier = 20
    /\ gameSettings.specialBubbleFrequency = 100
    /\ gameSettings.gameTimeMinutes = -1
    /\ gestureTimingSeconds = 1
    /\ gameSettings.babyMode

----------------------------------------------------------------------------
(* Properties of games under changing settings *)

\* C31: whenever the game state is GAME or PAUSE_CONFIRM, the current
\* difficulty values (spawn rate, max bubbles, min and max speed) equal
\* calculateDifficultyValues(popCount + specialPopCount) under the settings
\* of the moment: they are recomputed after every pop and at reset, and the
\* settings do not change during a game.
C31_DifficultyIsCurrent ==
    currentState \in {GameState.GAME, GameState.PAUSE_CONFIRM} =>
        difficulty = calculateDifficultyValues(popCount + specialPopCount)

\* a game played with the fastest progression after the settings were
\* changed, a normal and a special bubble popped, then paused
C31_Witness ==
    /\ currentState = GameState.PAUSE_CONFIRM
    /\ gameSettings.difficultyMultiplier = 20
    /\ ~gameSettings.babyMode
    /\ popCount >= 1
    /\ specialPopCount >= 1
    /\ difficulty.spawnRate = 10000 - (popCount + specialPopCount) * 14 * 20

====
